---- MODULE Spec2Model ----
(***************************************************************************)
(* BoundedVec<T, S> of frame/support/src/storage/bounded_vec.rs: the       *)
(* in-memory bounded vector with its bound-checked mutators, and the       *)
(* try_append storage facades (value, map, double map) that append to the  *)
(* SCALE-encoded bytes kept in storage.                                    *)
(***************************************************************************)
EXTENDS Integers, Sequences, FiniteSets, TLC

(* ------------------------------ bounds -------------------------------- *)
\* the bound S::get() ranges over 0..MaxBound
MaxBound == 2
\* the longest Vec<T> handed to try_from / produced by a try_mutate closure
MaxLen == 3

\* the element values of T = u32 that are used (one of them needs two bytes)
Elems == {1, 258}
\* the two BoundedVec values of a run: one built by the caller, one by clone()
Slots == {"bounded", "cloned"}
\* Vec<T> values of length <= n
Vecs(n) == UNION {[1..k -> Elems] : k \in 0..n}
\* the usize arguments tried as `index`
Indices == 0..(MaxLen + 1)

VARIABLES
    S,        \* the value of S::get(), fixed for the type
    vecs,     \* slot -> Option<BoundedVec<T, S>>: the values that exist
    last,     \* the last in-memory call: its arguments and what it returned
    facade,   \* the storage item a run works on and the keys it uses of it
    storage,  \* final key -> Option<Vec<u8>>: the externalities' storage
    call,     \* the last storage call: its arguments and what it returned
    series,   \* the current series of try_append calls on one key
    size,     \* the last max_encoded_len() asked for, and the answer
    pending   \* caller -> the try_append it is in the middle of

vars == <<S, vecs, last, facade, storage, call, series, size, pending>>

(* ------------------------------ Option -------------------------------- *)
None == [some |-> FALSE, val |-> <<>>]
Some(x) == [some |-> TRUE, val |-> x]

(* ------------------------------ Vec<T> -------------------------------- *)
\* Vec::insert panics if index > len
VecInsertPanics(v, index) == index > Len(v)
\* Vec::insert with a 0-based index: later elements shift right
VecInsert(v, index, element) ==
    SubSeq(v, 1, index) \o <<element>> \o SubSeq(v, index + 1, Len(v))
\* Vec::remove / Vec::swap_remove panic if index >= len
VecRemovePanics(v, index) == index >= Len(v)
VecRemove(v, index) == SubSeq(v, 1, index) \o SubSeq(v, index + 2, Len(v))
\* Vec::remove called where Vec::swap_remove is meant: the order is kept
VecSwapRemove_ordered(v, index) == VecRemove(v, index)
\* Vec::swap_remove: the last element takes the removed slot
VecSwapRemove(v, index) ==
    LET n == Len(v)
        w == [v EXCEPT ![index + 1] = v[n]]
    IN  SubSeq(w, 1, n - 1)
\* Vec::retain with the predicate "is in keep"
VecRetain(v, keep) ==
    LET Keep(x) == x \in keep IN SelectSeq(v, Keep)

(* ---------------------------- BoundedVec ------------------------------ *)
\* BoundedVec::bound()
bound == S

Panicked == last.res = "Panic"

\* `pushed` is Some(the elements try_push appended) while the calls since a
\* default() on `slot` were all try_push on that slot, and None otherwise
\* `peak` is the longest the inner Vec got inside a try_mutate closure
NoCall == [op |-> "none", slot |-> "bounded", index |-> 0, element |-> 0,
           t |-> <<>>, res |-> "Unit", ret |-> <<>>, pushed |-> None, peak |-> 0]

Called(op, slot, index, element, t, res, ret) ==
    [op |-> op, slot |-> slot, index |-> index, element |-> element,
     t |-> t, res |-> res, ret |-> ret, pushed |-> None, peak |-> 0]

Pushed(slot, element, ok) ==
    IF last.pushed.some /\ last.slot = slot
      THEN (IF ok THEN Some(Append(last.pushed.val, element)) ELSE last.pushed)
      ELSE None

StoreIdle == UNCHANGED <<S, facade, storage, call, series, size, pending>>

\* unsafe fn unchecked_from(t): wraps t as it is
unchecked_from(t) == Some(t)

\* force_from warning from the bound on, not only over it
force_from_over_bound_inclusive(t) == Len(t) >= bound
\* the test `t.len() > Self::bound()` of force_from
force_from_over_bound(t) == Len(t) > bound

\* unsafe BoundedVec::force_from(t, scope): no check, a warning is logged when
\* the bound is not respected
force_from(slot, t) ==
    /\ ~Panicked
    /\ vecs' = [vecs EXCEPT ![slot] = unchecked_from(t)]
    /\ last' = Called("force_from", slot, 0, 0, t,
                      IF force_from_over_bound(t) THEN "Warn" ELSE "Unit", <<>>)
    /\ StoreIdle

\* Default::default(): the empty vector
default(slot) ==
    /\ ~Panicked
    /\ vecs' = [vecs EXCEPT ![slot] = unchecked_from(<<>>)]
    /\ last' = [Called("default", slot, 0, 0, <<>>, "Unit", <<>>)
                   EXCEPT !.pushed = Some(<<>>)]
    /\ StoreIdle

\* try_from with the check `<`: refuses a vector of exactly S elements
try_from_fits_strict(t) == Len(t) < bound

\* the check of TryFrom<Vec<T>>::try_from
try_from_fits(t) == Len(t) <= bound

\* TryFrom<Vec<T>>::try_from(t), the result bound to `slot` when it is Ok
try_from(slot, t) ==
    /\ ~Panicked
    /\ IF try_from_fits(t)
         THEN /\ vecs' = [vecs EXCEPT ![slot] = unchecked_from(t)]
              /\ last' = Called("try_from", slot, 0, 0, t, "Ok", <<>>)
         ELSE /\ vecs' = vecs
              /\ last' = Called("try_from", slot, 0, 0, t, "Err", <<>>)
    /\ StoreIdle

\* into_inner(self): consumes the value and returns the inner Vec
into_inner(slot) ==
    /\ ~Panicked
    /\ vecs[slot].some
    /\ vecs' = [vecs EXCEPT ![slot] = None]
    /\ last' = Called("into_inner", slot, 0, 0, <<>>, "Unit", vecs[slot].val)
    /\ StoreIdle

\* Clone::clone(&self), the copy bound to the other slot
clone(slot, into) ==
    /\ ~Panicked
    /\ vecs[slot].some
    /\ into # slot
    /\ vecs' = [vecs EXCEPT ![into] = unchecked_from(vecs[slot].val)]
    /\ last' = Called("clone", slot, 0, 0, <<>>, "Unit", <<>>)
    /\ StoreIdle

\* remove(&mut self, index)
remove(slot, index) ==
    /\ ~Panicked
    /\ vecs[slot].some
    /\ IF VecRemovePanics(vecs[slot].val, index)
         THEN /\ vecs' = vecs
              /\ last' = Called("remove", slot, index, 0, <<>>, "Panic", <<>>)
         ELSE /\ vecs' = [vecs EXCEPT ![slot] = Some(VecRemove(vecs[slot].val, index))]
              /\ last' = Called("remove", slot, index, 0, <<>>, "Unit", <<>>)
    /\ StoreIdle

\* swap_remove(&mut self, index)
swap_remove(slot, index) ==
    /\ ~Panicked
    /\ vecs[slot].some
    /\ IF VecRemovePanics(vecs[slot].val, index)
         THEN /\ vecs' = vecs
              /\ last' = Called("swap_remove", slot, index, 0, <<>>, "Panic", <<>>)
         ELSE /\ vecs' = [vecs EXCEPT
                            ![slot] = Some(VecSwapRemove(vecs[slot].val, index))]
              /\ last' = Called("swap_remove", slot, index, 0, <<>>, "Unit", <<>>)
    /\ StoreIdle

\* retain(&mut self, f) with f = |x| keep.contains(x)
retain(slot, keep) ==
    /\ ~Panicked
    /\ vecs[slot].some
    /\ vecs' = [vecs EXCEPT ![slot] = Some(VecRetain(vecs[slot].val, keep))]
    /\ last' = Called("retain", slot, 0, 0, <<>>, "Unit", <<>>)
    /\ StoreIdle

\* the lengths the inner Vec of length n can reach inside a closure that
\* leaves it as t: the closure may grow it before it cuts it back
Peaks(n, t) == (IF n > Len(t) THEN n ELSE Len(t))..MaxLen

\* try_mutate checking the bound after every step of the closure
try_mutate_fits_throughout(peak, t) == peak <= bound

\* the check of try_mutate, made once after the closure ran
try_mutate_fits(peak, t) == Len(t) <= bound

\* try_mutate(self, mutate): the closure takes the inner Vec up to `peak`
\* elements and leaves it as t
try_mutate(slot, peak, t) ==
    /\ ~Panicked
    /\ vecs[slot].some
    /\ peak \in Peaks(Len(vecs[slot].val), t)
    /\ IF try_mutate_fits(peak, t)
         THEN /\ vecs' = [vecs EXCEPT ![slot] = Some(t)]
              /\ last' = [Called("try_mutate", slot, 0, 0, t, "Some", <<>>)
                             EXCEPT !.peak = peak]
         ELSE /\ vecs' = [vecs EXCEPT ![slot] = None]
              /\ last' = [Called("try_mutate", slot, 0, 0, t, "None", <<>>)
                             EXCEPT !.peak = peak]
    /\ StoreIdle

\* try_insert with the check `<=`: inserts into a full vector
try_insert_has_room_inclusive(v) == Len(v) <= bound

\* the check of try_insert
try_insert_has_room(v) == Len(v) < bound

\* try_insert(&mut self, index, element)
try_insert(slot, index, element) ==
    /\ ~Panicked
    /\ vecs[slot].some
    /\ IF try_insert_has_room(vecs[slot].val)
         THEN IF VecInsertPanics(vecs[slot].val, index)
                THEN /\ vecs' = vecs
                     /\ last' = Called("try_insert", slot, index, element, <<>>,
                                       "Panic", <<>>)
                ELSE /\ vecs' = [vecs EXCEPT
                           ![slot] = Some(VecInsert(vecs[slot].val, index, element))]
                     /\ last' = Called("try_insert", slot, index, element, <<>>,
                                       "Ok", <<>>)
         ELSE /\ vecs' = vecs
              /\ last' = Called("try_insert", slot, index, element, <<>>, "Err", <<>>)
    /\ StoreIdle

\* try_push with the check `<=`: pushes onto a full vector
try_push_has_room_inclusive(v) == Len(v) <= bound
\* try_push with the check `!=`: pushes whenever the length is not the bound
try_push_has_room_unequal(v) == Len(v) # bound
\* try_push with the check one short: refuses the last free place
try_push_has_room_early(v) == Len(v) + 1 < bound

\* the check of try_push
try_push_has_room(v) == Len(v) < bound

\* try_push(&mut self, element)
try_push_body(slot, element) ==
    /\ ~Panicked
    /\ vecs[slot].some
    /\ IF try_push_has_room(vecs[slot].val)
         THEN /\ vecs' = [vecs EXCEPT ![slot] = Some(Append(vecs[slot].val, element))]
              /\ last' = [Called("try_push", slot, 0, element, <<>>, "Ok", <<>>)
                             EXCEPT !.pushed = Pushed(slot, element, TRUE)]
         ELSE /\ vecs' = vecs
              /\ last' = [Called("try_push", slot, 0, element, <<>>, "Err", <<>>)
                             EXCEPT !.pushed = Pushed(slot, element, FALSE)]

\* try_push as a call of its own: the storage is left alone
try_push(slot, element) ==
    /\ try_push_body(slot, element)
    /\ StoreIdle

(* --------------------------- SCALE encoding --------------------------- *)
\* the k little-endian bytes of n
LE(n, k) == [i \in 1..k |-> (n \div (256 ^ (i - 1))) % 256]
\* the number read from little-endian bytes
RECURSIVE FromLE(_)
FromLE(b) == IF b = <<>> THEN 0 ELSE b[1] + 256 * FromLE(Tail(b))

\* Compact<u32>::encode: the compact form of a count
CompactEncode(n) ==
    IF n < 2 ^ 6 THEN LE(4 * n, 1)
    ELSE IF n < 2 ^ 14 THEN LE(4 * n + 1, 2)
    ELSE IF n < 2 ^ 30 THEN <<4 * (n % 64) + 2>> \o LE(n \div 64, 3)
    ELSE <<3>> \o LE(n, 4)

DecodeError == [ok |-> FALSE, val |-> 0, used |-> 0]
Decoded(n, used) == [ok |-> TRUE, val |-> n, used |-> used]

\* Compact<u32>::decode: the count and the bytes of the prefix, or an error for
\* a truncated or non-canonical prefix
CompactDecode(b) ==
    IF Len(b) = 0 THEN DecodeError
    ELSE CASE b[1] % 4 = 0 -> Decoded(b[1] \div 4, 1)
           [] b[1] % 4 = 1 ->
                IF Len(b) < 2 THEN DecodeError
                ELSE LET x == FromLE(SubSeq(b, 1, 2)) \div 4
                     IN  IF x >= 2 ^ 6 THEN Decoded(x, 2) ELSE DecodeError
           [] b[1] % 4 = 2 ->
                IF Len(b) < 4 THEN DecodeError
                ELSE LET x == (b[1] \div 4) + 64 * FromLE(SubSeq(b, 2, 4))
                     IN  IF x >= 2 ^ 14 THEN Decoded(x, 4) ELSE DecodeError
           [] OTHER ->
                IF b[1] \div 4 # 0 \/ Len(b) < 5 THEN DecodeError
                ELSE LET x == FromLE(SubSeq(b, 2, 5))
                     IN  IF x >= 2 ^ 30 THEN Decoded(x, 5) ELSE DecodeError

\* u32::encode: four little-endian bytes
EncodeItem(x) == LE(x, 4)

RECURSIVE EncodeItems(_)
EncodeItems(v) ==
    IF v = <<>> THEN <<>> ELSE EncodeItem(Head(v)) \o EncodeItems(Tail(v))

\* #[derive(Encode)] on BoundedVec(Vec<T>, PhantomData<S>): encodes as Vec<T>,
\* the compact count and then each item
Encode(v) == CompactEncode(Len(v)) \o EncodeItems(v)

RECURSIVE DecodeItems(_)
DecodeItems(b) ==
    IF b = <<>> THEN <<>>
    ELSE <<FromLE(SubSeq(b, 1, 4))>> \o DecodeItems(SubSeq(b, 5, Len(b)))

\* #[derive(Decode)]: the count, then that many items; None when the bytes do
\* not hold exactly that
Decode(b) ==
    LET c == CompactDecode(b)
    IN  IF c.ok /\ Len(b) - c.used = 4 * c.val
          THEN Some(DecodeItems(SubSeq(b, c.used + 1, Len(b))))
          ELSE None

\* the length of the encoded bytes taken for the count
DecodeLength_len_of_bytes(self_encoded) == Decoded(Len(self_encoded), 0)

\* <BoundedVec<T, S> as codec::DecodeLength>::len: the count of the prefix
DecodeLength_len(self_encoded) == CompactDecode(self_encoded)

(* ------------------------------ storage ------------------------------- *)
\* the keys of FooMap and the key pairs of FooDoubleMap that are used
MapKeys == {1, 2}
DoubleMapKeys == {<<1, 1>>, <<2, 1>>, <<1, 2>>}

\* the final keys: the item's prefix with the hashed keys (0: no such key)
storage_value_final_key == [item |-> "Foo", key1 |-> 0, key2 |-> 0]
storage_map_final_key(key) == [item |-> "FooMap", key1 |-> key, key2 |-> 0]
storage_double_map_final_key(key1, key2) ==
    [item |-> "FooDoubleMap", key1 |-> key1, key2 |-> key2]

FinalKeys ==
    {storage_value_final_key}
        \cup {storage_map_final_key(k) : k \in MapKeys}
        \cup {storage_double_map_final_key(k[1], k[2]) : k \in DoubleMapKeys}

\* the final keys of a storage item
KeysOf(item) ==
    CASE item = "Value" -> {storage_value_final_key}
      [] item = "Map" -> {storage_map_final_key(k) : k \in MapKeys}
      [] item = "DoubleMap" ->
            {storage_double_map_final_key(k[1], k[2]) : k \in DoubleMapKeys}

\* what a run works on: Foo, or two keys of FooMap or of FooDoubleMap (as
\* each block of the tests does in its own TestExternalities)
Facades ==
    {[item |-> "Value", keys |-> KeysOf("Value")]}
        \cup UNION {{[item |-> item, keys |-> keys] :
                        keys \in {ks \in SUBSET KeysOf(item) : Cardinality(ks) = 2}} :
                    item \in {"Map", "DoubleMap"}}

\* StorageDecodeLength::decode_len: None when nothing is stored under the key,
\* else the count read from the compact prefix of the stored bytes
decode_len(final_key) ==
    IF ~storage[final_key].some THEN [tag |-> "None", val |-> 0]
    ELSE LET r == DecodeLength_len(storage[final_key].val)
         IN  IF r.ok THEN [tag |-> "Some", val |-> r.val]
                     ELSE [tag |-> "DecodeError", val |-> 0]

\* .unwrap_or_default(): the count, or usize::default() = 0 without one
unwrap_or_default(r) == IF r.tag = "Some" THEN r.val ELSE 0

\* sp_io::storage::append(key, value): appends the item's bytes and rewrites
\* the prefix with the count plus one; stores the one-item vector when the key
\* holds nothing (or nothing with a readable prefix)
sp_io_storage_append(final_key, value) ==
    LET old == storage[final_key]
        c == CompactDecode(old.val)
    IN  IF old.some /\ c.ok
          THEN Some(CompactEncode(c.val + 1)
                      \o SubSeq(old.val, c.used + 1, Len(old.val)) \o value)
          ELSE Some(CompactEncode(1) \o value)

\* StorageValue::get / StorageMap::get / StorageDoubleMap::get on the storage
\* `store`: the decoded value under the key, None when there is none
storage_get(store, final_key) ==
    IF store[final_key].some THEN Decode(store[final_key].val) ELSE None

\* the elements read back, a key holding nothing counting as no elements
ReadFrom(store, final_key) ==
    IF storage_get(store, final_key).some
      THEN storage_get(store, final_key).val
      ELSE <<>>
Read(final_key) == ReadFrom(storage, final_key)

\* `call` is the last storage call; `series` follows the calls on call.key
\* since another key was last used: `start` is what the key held when the
\* series began (or the last whole value written to it since), `fresh` whether
\* it held nothing then, `appended` the items appended to it with Ok since
NoStorageCall == [op |-> "none", key |-> storage_value_final_key, res |-> "Unit"]
NoSeries == [fresh |-> TRUE, start |-> <<>>, appended |-> <<>>]

SeriesOn(final_key) ==
    IF call.op # "none" /\ call.key = final_key
      THEN series
      ELSE [fresh |-> ~storage[final_key].some, start |-> Read(final_key),
            appended |-> <<>>]

Appended(final_key, item) ==
    [SeriesOn(final_key) EXCEPT !.appended = Append(@, item)]

Rewritten(t) == [fresh |-> FALSE, start |-> t, appended |-> <<>>]

VecIdle == UNCHANGED <<S, facade, vecs, last, size, pending>>

\* Foo::put(bounded) / FooMap::insert(key, bounded) /
\* FooDoubleMap::insert(key1, key2, bounded) with bounded = t.try_into().unwrap():
\* writes the whole encoded value
storage_put(final_key, t) ==
    /\ final_key \in facade.keys
    /\ try_from_fits(t)
    /\ storage' = [storage EXCEPT ![final_key] = Some(Encode(unchecked_from(t).val))]
    /\ call' = [op |-> "put", key |-> final_key, res |-> "Unit"]
    /\ series' = Rewritten(t)
    /\ VecIdle

\* the same write of unsafe { BoundedVec::force_from(t, None) }, which checks
\* nothing
storage_put_forced(final_key, t) ==
    /\ final_key \in facade.keys
    /\ storage' = [storage EXCEPT ![final_key] = Some(Encode(unchecked_from(t).val))]
    /\ call' = [op |-> "put_forced", key |-> final_key, res |-> "Unit"]
    /\ series' = Rewritten(t)
    /\ VecIdle

\* stored bytes whose length prefix is cut short (no byte at all, or the first
\* byte of a two-, four- or five-byte prefix alone) or is not the compact
\* encoding of a u32 (a five-byte prefix with spare bits set, a two-byte prefix
\* for a count that fits one byte)
MalformedPrefixes == {<<>>, <<1>>, <<2, 0>>, <<3, 0, 0>>, <<7, 0, 0, 0, 0>>,
                      <<1, 0>>}

\* put(key, bytes) of the raw store: the bytes are stored as they are
storage_put_raw(final_key, bytes) ==
    /\ final_key \in facade.keys
    /\ storage' = [storage EXCEPT ![final_key] = Some(bytes)]
    /\ call' = [op |-> "put_raw", key |-> final_key, res |-> "Unit"]
    /\ series' = Rewritten(ReadFrom(storage', final_key))
    /\ VecIdle

\* the result of a try_append on `final_key`, as the caller sees it
AppendCalled(final_key, res) == [op |-> "try_append", key |-> final_key, res |-> res]

\* TryAppendValue::try_append with the check `<=`
TryAppendValue_has_room_inclusive(current) == current <= bound

\* the check of TryAppendValue::try_append
TryAppendValue_has_room(current) == current < bound

\* vec![item].encode() in place of item.encode(): a count byte goes with the item
TryAppendValue_item_encode_as_vec(item) == Encode(<<item>>)

\* item.encode() in TryAppendValue::try_append
TryAppendValue_item_encode(item) == EncodeItem(item)

\* <StorageValueT as TryAppendValue>::try_append(item)
TryAppendValue_try_append_body(item) ==
    /\ facade.item = "Value"
    /\ LET current == unwrap_or_default(decode_len(storage_value_final_key))
       IN  IF TryAppendValue_has_room(current)
             THEN LET key == storage_value_final_key
                  IN  /\ storage' = [storage EXCEPT ![key] =
                            sp_io_storage_append(key, TryAppendValue_item_encode(item))]
                      /\ call' = AppendCalled(storage_value_final_key, "Ok")
                      /\ series' = Appended(storage_value_final_key, item)
             ELSE /\ storage' = storage
                  /\ call' = AppendCalled(storage_value_final_key, "Err")
                  /\ series' = SeriesOn(storage_value_final_key)

\* the call on its own: the in-memory values are left alone
TryAppendValue_try_append(item) ==
    /\ TryAppendValue_try_append_body(item)
    /\ VecIdle

\* TryAppendMap::try_append with the check `<=`
TryAppendMap_has_room_inclusive(current) == current <= bound

\* the check of TryAppendMap::try_append
TryAppendMap_has_room(current) == current < bound

\* the final key of the item alone, the map key left out
TryAppendMap_final_key_without_key(key) == storage_map_final_key(1)

\* let key = Self::storage_map_final_key(key) in TryAppendMap::try_append
TryAppendMap_final_key(key) == storage_map_final_key(key)

\* <StorageMapT as TryAppendMap>::try_append(key, item)
TryAppendMap_try_append_body(map_key, item) ==
    /\ facade.item = "Map"
    /\ storage_map_final_key(map_key) \in facade.keys
    /\ LET current == unwrap_or_default(decode_len(storage_map_final_key(map_key)))
       IN  IF TryAppendMap_has_room(current)
             THEN LET key == TryAppendMap_final_key(map_key)
                  IN  /\ storage' = [storage EXCEPT ![key] =
                            sp_io_storage_append(key, EncodeItem(item))]
                      /\ call' = AppendCalled(storage_map_final_key(map_key), "Ok")
                      /\ series' = Appended(storage_map_final_key(map_key), item)
             ELSE /\ storage' = storage
                  /\ call' = AppendCalled(storage_map_final_key(map_key), "Err")
                  /\ series' = SeriesOn(storage_map_final_key(map_key))

\* the call on its own: the in-memory values are left alone
TryAppendMap_try_append(map_key, item) ==
    /\ TryAppendMap_try_append_body(map_key, item)
    /\ VecIdle

\* TryAppendDoubleMap::try_append with the check `<=`
TryAppendDoubleMap_has_room_inclusive(current) == current <= bound

\* the check of TryAppendDoubleMap::try_append
TryAppendDoubleMap_has_room(current) == current < bound

\* the two keys handed over in the wrong order
TryAppendDoubleMap_final_key_swapped(key1, key2) ==
    storage_double_map_final_key(key2, key1)

\* let double_map_key = Self::storage_double_map_final_key(key1, key2) in
\* TryAppendDoubleMap::try_append
TryAppendDoubleMap_final_key(key1, key2) == storage_double_map_final_key(key1, key2)

\* <StorageDoubleMapT as TryAppendDoubleMap>::try_append(key1, key2, item)
TryAppendDoubleMap_try_append_body(key1, key2, item) ==
    /\ facade.item = "DoubleMap"
    /\ storage_double_map_final_key(key1, key2) \in facade.keys
    /\ LET asked == storage_double_map_final_key(key1, key2)
           current == unwrap_or_default(decode_len(asked))
       IN  IF TryAppendDoubleMap_has_room(current)
             THEN LET double_map_key == TryAppendDoubleMap_final_key(key1, key2)
                  IN  /\ storage' = [storage EXCEPT ![double_map_key] =
                            sp_io_storage_append(double_map_key, EncodeItem(item))]
                      /\ call' = AppendCalled(asked, "Ok")
                      /\ series' = Appended(asked, item)
             ELSE /\ storage' = storage
                  /\ call' = AppendCalled(asked, "Err")
                  /\ series' = SeriesOn(asked)

\* the call on its own: the in-memory values are left alone
TryAppendDoubleMap_try_append(key1, key2, item) ==
    /\ TryAppendDoubleMap_try_append_body(key1, key2, item)
    /\ VecIdle

(* --------------------------- max_encoded_len -------------------------- *)
\* usize::MAX, with usize taken 31 bits wide
usize_MAX == 2147483647

\* usize::wrapping_add: the sum modulo usize::MAX + 1
wrapping_add(a, b) == IF a > usize_MAX - b THEN a - (usize_MAX - b) - 1 ELSE a + b

\* usize::saturating_add
saturating_add(a, b) == IF a > usize_MAX - b THEN usize_MAX ELSE a + b

\* usize::saturating_mul
saturating_mul(a, b) ==
    IF b # 0 /\ a > usize_MAX \div b THEN usize_MAX ELSE a * b

\* codec::Compact(n).encoded_size(): the bytes the compact form of n takes
Compact_encoded_size(n) == Len(CompactEncode(n))

\* T::max_encoded_len() for T = u32
T_max_encoded_len == 4

\* the elements alone, the bytes of the count left out
max_encoded_len_without_prefix(element_max_encoded_len) ==
    saturating_mul(bound, element_max_encoded_len)

\* <BoundedVec<T, S> as MaxEncodedLen>::max_encoded_len(), for an element type
\* with T::max_encoded_len() = element_max_encoded_len
max_encoded_len(element_max_encoded_len) ==
    saturating_add(Compact_encoded_size(S),
                   saturating_mul(bound, element_max_encoded_len))

\* no max_encoded_len() was asked for yet
NoSize == [asked |-> FALSE, element |-> 0, len |-> 0]

\* a call of BoundedVec::<T, S>::max_encoded_len()
max_encoded_len_call(element_max_encoded_len) ==
    /\ size' = [asked |-> TRUE, element |-> element_max_encoded_len,
                len |-> max_encoded_len(element_max_encoded_len)]
    /\ UNCHANGED <<S, vecs, last, facade, storage, call, series, pending>>

\* the bounds tried for max_encoded_len: the small ones, those around the steps
\* of the compact form, and the largest
BoundSamples ==
    (0..MaxBound) \cup {2 ^ 6 - 1, 2 ^ 6, 2 ^ 6 + 1, 2 ^ 14 - 1, 2 ^ 14, 2 ^ 14 + 1,
                        2 ^ 30 - 1, 2 ^ 30, 2 ^ 30 + 1, usize_MAX - 5,
                        usize_MAX - 1, usize_MAX}
\* the values of T::max_encoded_len() tried
ElementSizes == {0, 1, 2, T_max_encoded_len, 2 ^ 16, 2 ^ 17, 2 ^ 25, 2 ^ 30,
                 usize_MAX - 1, usize_MAX}

(* ------------------------ interleaved try_append ---------------------- *)
\* the callers of try_append that may be interleaved
Callers == {1, 2}

\* where a caller is in its try_append: "start" before the call, "read" after
\* it read the count `current`, "done" after it returned `res`
NotCalling == [pc |-> "start", key |-> storage_value_final_key, item |-> 0,
               current |-> 0, res |-> "Unit"]
NoPending == [caller \in Callers |-> NotCalling]

\* the check with the count one short: a caller that read S - 1 is refused
try_append_has_room_early(current) == current + 1 < bound

\* the check `current < Self::bound()` of the facade the run works on
try_append_has_room(current) ==
    CASE facade.item = "Value" -> TryAppendValue_has_room(current)
      [] facade.item = "Map" -> TryAppendMap_has_room(current)
      [] OTHER -> TryAppendDoubleMap_has_room(current)

\* the first store step of a try_append:
\* let current = Self::decode_len(..).unwrap_or_default();
try_append_decode_len(caller, final_key, item) ==
    /\ pending[caller].pc = "start"
    /\ final_key \in facade.keys
    /\ pending' = [pending EXCEPT ![caller] =
            [pc |-> "read", key |-> final_key, item |-> item,
             current |-> unwrap_or_default(decode_len(final_key)), res |-> "Unit"]]
    /\ UNCHANGED <<S, vecs, last, facade, storage, call, series, size>>

\* the rest of the try_append: the check of the count read before and, with
\* room, the second store step sp_io::storage::append(&key, item.encode())
try_append_append(caller) ==
    /\ pending[caller].pc = "read"
    /\ LET p == pending[caller]
       IN  IF try_append_has_room(p.current)
             THEN /\ storage' = [storage EXCEPT ![p.key] =
                        sp_io_storage_append(p.key, EncodeItem(p.item))]
                  /\ pending' = [pending EXCEPT ![caller] =
                        [p EXCEPT !.pc = "done", !.res = "Ok"]]
             ELSE /\ storage' = storage
                  /\ pending' = [pending EXCEPT ![caller] =
                        [p EXCEPT !.pc = "done", !.res = "Err"]]
    /\ UNCHANGED <<S, vecs, last, facade, call, series, size>>

(* --------------------------- specifications --------------------------- *)
\* the in-memory type: no value exists yet, nothing is stored
Init ==
    /\ S \in 0..MaxBound
    /\ vecs = [slot \in Slots |-> None]
    /\ last = NoCall
    /\ facade = [item |-> "Value", keys |-> KeysOf("Value")]
    /\ storage = [k \in FinalKeys |-> None]
    /\ call = NoStorageCall
    /\ series = NoSeries
    /\ size = NoSize
    /\ pending = NoPending

\* the validated construction and mutation surface of BoundedVec
Next ==
    \/ \E slot \in Slots : default(slot)
    \/ \E slot \in Slots, t \in Vecs(MaxLen) : try_from(slot, t)
    \/ \E slot \in Slots : into_inner(slot)
    \/ \E slot \in Slots, into \in Slots : clone(slot, into)
    \/ \E slot \in Slots, index \in Indices : remove(slot, index)
    \/ \E slot \in Slots, index \in Indices : swap_remove(slot, index)
    \/ \E slot \in Slots, keep \in SUBSET Elems : retain(slot, keep)
    \/ \E slot \in Slots, peak \in 0..MaxLen, t \in Vecs(MaxLen) :
            try_mutate(slot, peak, t)
    \/ \E slot \in Slots, index \in Indices, element \in Elems :
            try_insert(slot, index, element)
    \/ \E slot \in Slots, element \in Elems : try_push(slot, element)

Spec == Init /\ [][Next]_vars

\* one BoundedVec that force_from, too, may build, with the whole surface
NextForce ==
    \/ default("bounded")
    \/ \E t \in Vecs(MaxLen) : try_from("bounded", t)
    \/ \E t \in Vecs(MaxLen) : force_from("bounded", t)
    \/ into_inner("bounded")
    \/ \E index \in Indices : remove("bounded", index)
    \/ \E index \in Indices : swap_remove("bounded", index)
    \/ \E keep \in SUBSET Elems : retain("bounded", keep)
    \/ \E peak \in 0..MaxLen, t \in Vecs(MaxLen) : try_mutate("bounded", peak, t)
    \/ \E index \in Indices, element \in Elems :
            try_insert("bounded", index, element)
    \/ \E element \in Elems : try_push("bounded", element)

SpecForce == Init /\ [][NextForce]_vars

\* the storage facades: an empty TestExternalities and one storage item
InitStore ==
    /\ S \in 0..MaxBound
    /\ vecs = [slot \in Slots |-> None]
    /\ last = NoCall
    /\ facade \in Facades
    /\ storage = [k \in FinalKeys |-> None]
    /\ call = NoStorageCall
    /\ series = NoSeries
    /\ size = NoSize
    /\ pending = NoPending

TryAppend ==
    \/ \E item \in Elems : TryAppendValue_try_append(item)
    \/ \E key \in MapKeys, item \in Elems : TryAppendMap_try_append(key, item)
    \/ \E k \in DoubleMapKeys, item \in Elems :
            TryAppendDoubleMap_try_append(k[1], k[2], item)

\* writes of validated values and try_append calls, one after the other
NextStore ==
    \/ \E key \in facade.keys, t \in Vecs(MaxBound) : storage_put(key, t)
    \/ TryAppend

SpecStore == InitStore /\ [][NextStore]_vars

\* writes of values built by force_from, of up to one element over the bound,
\* and try_append calls
NextStoreForced ==
    \/ \E key \in facade.keys, t \in Vecs(bound + 1) : storage_put_forced(key, t)
    \/ TryAppend

SpecStoreForced == InitStore /\ [][NextStoreForced]_vars

\* one element handed both to try_push on the in-memory value and to the
\* try_append of the facade on the key the value was written at
try_push_and_try_append(element) ==
    /\ call.op # "none"
    /\ try_push_body("bounded", element)
    /\ \/ TryAppendValue_try_append_body(element)
       \/ \E key \in MapKeys :
            /\ storage_map_final_key(key) = call.key
            /\ TryAppendMap_try_append_body(key, element)
       \/ \E k \in DoubleMapKeys :
            /\ storage_double_map_final_key(k[1], k[2]) = call.key
            /\ TryAppendDoubleMap_try_append_body(k[1], k[2], element)
    /\ UNCHANGED <<S, facade, size, pending>>

\* a value s is validated and written whole at one key; from then on every
\* element goes to try_push on the value and to try_append on the key
NextRefine ==
    \/ /\ last.op = "none"
       /\ \E t \in Vecs(MaxLen) : try_from("bounded", t)
    \/ /\ last.op = "try_from" /\ last.res = "Ok" /\ call.op = "none"
       /\ \E key \in facade.keys : storage_put(key, last.t)
    \/ \E element \in Elems : try_push_and_try_append(element)

SpecRefine == InitStore /\ [][NextRefine]_vars

\* validated values are written, then each of two callers makes one
\* try_append, the two store steps of the calls interleaved in any order
NextRace ==
    \/ /\ \A caller \in Callers : pending[caller].pc = "start"
       /\ \E key \in facade.keys, t \in Vecs(MaxBound) : storage_put(key, t)
    \/ \E caller \in Callers, key \in facade.keys, item \in Elems :
            try_append_decode_len(caller, key, item)
    \/ \E caller \in Callers : try_append_append(caller)

SpecRace == InitStore /\ [][NextRace]_vars

\* max_encoded_len() of BoundedVec<T, S> for the sampled S and element sizes
InitSize ==
    /\ S \in BoundSamples
    /\ vecs = [slot \in Slots |-> None]
    /\ last = NoCall
    /\ facade = [item |-> "Value", keys |-> KeysOf("Value")]
    /\ storage = [k \in FinalKeys |-> None]
    /\ call = NoStorageCall
    /\ series = NoSeries
    /\ size = NoSize
    /\ pending = NoPending

NextSize == \E e \in ElementSizes : max_encoded_len_call(e)

SpecSize == InitSize /\ [][NextSize]_vars

\* raw writes of bytes with a malformed or truncated length prefix, writes of
\* validated values, and try_append calls
NextStoreRaw ==
    \/ \E key \in facade.keys, bytes \in MalformedPrefixes :
            storage_put_raw(key, bytes)
    \/ \E key \in facade.keys, t \in Vecs(MaxBound) : storage_put(key, t)
    \/ TryAppend

SpecStoreRaw == InitStore /\ [][NextStoreRaw]_vars

(* ------------------------------ claims -------------------------------- *)
\* the BoundedVec a call worked on, before and after it
Before == vecs[last'.slot].val
After == vecs'[last'.slot].val

\* C1: every BoundedVec that exists after any sequence of calls of the
\* validated surface (default, try_from, try_push, try_insert, remove,
\* swap_remove, retain, clone, try_mutate) has length <= S.
C1_LengthWithinBound ==
    \A slot \in Slots : vecs[slot].some => Len(vecs[slot].val) <= bound

\* a try_insert filled a value up to the bound while its clone exists too
C1_Witness ==
    /\ last.op = "try_insert" /\ last.res = "Ok"
    /\ bound = MaxBound
    /\ \A slot \in Slots : vecs[slot].some
    /\ Len(vecs[last.slot].val) = bound

\* C7: from an empty BoundedVec, repeated try_push succeeds exactly S times,
\* each time appending its element at the end, and fails on every later
\* attempt, leaving the S elements as they are.
C7_TryPushFillsToBound ==
    last.pushed.some =>
        /\ vecs[last.slot].some
        /\ vecs[last.slot].val = last.pushed.val
        /\ Len(last.pushed.val) <= bound
        /\ (last.op = "try_push" /\ last.res = "Err") => Len(last.pushed.val) = bound

\* the push after S successful ones failed
C7_Witness ==
    /\ last.pushed.some /\ last.op = "try_push" /\ last.res = "Err"
    /\ bound = MaxBound
    /\ Len(vecs[last.slot].val) = bound

C9_InsertPanicsBeyondLength ==
    [][(last'.op = "try_insert" /\ last'.index > Len(Before)) =>
            last'.res = "Panic"]_vars

\* C10: try_from(t) is Ok exactly when len(t) <= S, the value then holds t as
\* it is, and into_inner returns the held elements as they are; a failed
\* try_from changes nothing.
C10_TryFromRoundTrip ==
    [][/\ last'.op = "try_from" =>
            /\ last'.res = (IF Len(last'.t) <= bound THEN "Ok" ELSE "Err")
            /\ last'.res = "Ok" => vecs'[last'.slot] = Some(last'.t)
            /\ last'.res = "Err" => vecs' = vecs
       /\ last'.op = "into_inner" =>
            /\ last'.ret = Before
            /\ ~vecs'[last'.slot].some
    ]_vars

\* a vector of exactly S elements was accepted
C10_Witness ==
    /\ last.op = "try_from" /\ last.res = "Ok"
    /\ bound = MaxBound
    /\ Len(last.t) = bound
    /\ vecs[last.slot].val = last.t

\* the count in the compact prefix of stored bytes, 0 when nothing is stored
PrefixCount(store, final_key) ==
    IF store[final_key].some THEN CompactDecode(store[final_key].val).val ELSE 0
\* the bytes after the prefix
Payload(store, final_key) ==
    IF store[final_key].some
      THEN SubSeq(store[final_key].val,
                  CompactDecode(store[final_key].val).used + 1,
                  Len(store[final_key].val))
      ELSE <<>>
\* the item the last successful try_append appended
AppendedItem == series'.appended[Len(series'.appended)]

\* C2: a try_append on a key that holds S or more elements returns Err and
\* writes nothing: the storage is the same at every key.
C2_FullAppendWritesNothing ==
    [][(call'.op = "try_append" /\ Len(ReadFrom(storage, call'.key)) >= bound) =>
            (call'.res = "Err" /\ storage' = storage)]_vars

\* a double map entry holding more than S elements refused an append
C2_Witness ==
    /\ call.op = "try_append" /\ call.res = "Err"
    /\ facade.item = "DoubleMap"
    /\ Len(Read(call.key)) > bound

\* C3: a successful try_append(key, x) turns the value read at key from s
\* into s ++ [x], nothing stored counting as s = []; so the key reads as what
\* it held at the start followed by the appended items in order.
C3_AppendAtEnd ==
    [][/\ (call'.op = "try_append" /\ call'.res = "Ok") =>
            /\ storage_get(storage', call'.key).some
            /\ ReadFrom(storage', call'.key) =
                    Append(ReadFrom(storage, call'.key), AppendedItem)
       /\ call'.op # "none" =>
            ReadFrom(storage', call'.key) = series'.start \o series'.appended
    ]_vars

\* two different items were appended to a map key that held nothing
C3_Witness ==
    /\ call.op = "try_append" /\ call.res = "Ok"
    /\ facade.item = "Map"
    /\ series.fresh
    /\ Len(series.appended) = 2
    /\ series.appended[1] # series.appended[2]
    /\ Read(call.key) = series.appended

\* the prefix of the stored bytes counts the four-byte items that follow it
PrefixCountsItems(store) ==
    \A k \in FinalKeys :
        store[k].some =>
            /\ CompactDecode(store[k].val).ok
            /\ Len(Payload(store, k)) = 4 * PrefixCount(store, k)

\* C4: at every key the count of the prefix equals the number of item
\* encodings after it, and a try_append either adds one to the count and one
\* item encoding at the end, or changes nothing at the key.
C4_PrefixCountsItems ==
    [][/\ PrefixCountsItems(storage')
       /\ call'.op = "try_append" =>
            \/ /\ call'.res = "Ok"
               /\ PrefixCount(storage', call'.key) = PrefixCount(storage, call'.key) + 1
               /\ Payload(storage', call'.key) =
                      Payload(storage, call'.key) \o EncodeItem(AppendedItem)
            \/ /\ call'.res = "Err"
               /\ storage'[call'.key] = storage[call'.key]
    ]_vars

\* an append to a stored value of one item made it two items
C4_Witness ==
    /\ call.op = "try_append" /\ call.res = "Ok"
    /\ facade.item = "Value"
    /\ Len(series.start) = 1 /\ ~series.fresh
    /\ PrefixCount(storage, call.key) = 2
    /\ Len(Payload(storage, call.key)) = 8

\* C5: on a key that held k <= S elements, serially repeated try_append
\* succeeds exactly S - k times and fails afterwards; the stored count is
\* k plus the successes, never above S, and S after a failure.
C5_AppendFillsToBound ==
    (call.op # "none" /\ Len(series.start) <= bound) =>
        /\ Len(series.appended) <= bound - Len(series.start)
        /\ PrefixCount(storage, call.key) = Len(series.start) + Len(series.appended)
        /\ PrefixCount(storage, call.key) <= bound
        /\ (call.op = "try_append" /\ call.res = "Err") =>
                Len(series.appended) = bound - Len(series.start)

\* a value of one element took S - 1 appends and refused the next
C5_Witness ==
    /\ call.op = "try_append" /\ call.res = "Err"
    /\ facade.item = "Value"
    /\ bound = MaxBound
    /\ Len(series.start) = 1 /\ ~series.fresh
    /\ Len(series.appended) = bound - 1

\* C6: a try_append at one key, Ok or Err, leaves the bytes stored at every
\* other key as they were, and a key that held nothing still holds nothing.
C6_OtherKeysUntouched ==
    [][call'.op = "try_append" =>
            \A k2 \in FinalKeys \ {call'.key} : storage'[k2] = storage[k2]]_vars

\* an append at (2, 1) while (1, 1) holds a value and (1, 2) holds nothing
C6_Witness ==
    /\ call.op = "try_append" /\ call.res = "Ok"
    /\ call.key = storage_double_map_final_key(2, 1)
    /\ storage[storage_double_map_final_key(1, 1)].some
    /\ ~storage[storage_double_map_final_key(1, 2)].some

\* C11: try_mutate returns Some holding exactly what the closure left when
\* that has at most S elements, and None otherwise, whatever length the Vec
\* had inside the closure; the value it was called on is gone either way.
C11_TryMutate ==
    [][last'.op = "try_mutate" =>
        /\ last'.res = (IF Len(last'.t) <= bound THEN "Some" ELSE "None")
        /\ last'.res = "Some" => vecs'[last'.slot] = Some(last'.t)
        /\ last'.res = "None" => ~vecs'[last'.slot].some
        /\ \A other \in Slots \ {last'.slot} : vecs'[other] = vecs[other]
    ]_vars

\* a closure went over the bound, came back to exactly S elements and got
\* Some
C11_Witness ==
    /\ last.op = "try_mutate" /\ last.res = "Some"
    /\ last.peak > bound
    /\ bound > 0
    /\ Len(last.t) = bound
    /\ vecs[last.slot] = Some(last.t)

\* the stored bytes under `final_key` have a length prefix that does not decode
MalformedAt(final_key) ==
    /\ storage[final_key].some
    /\ ~CompactDecode(storage[final_key].val).ok

\* C12: when the stored bytes at a key have a malformed or truncated length
\* prefix, decode-length reports a decode error, and try_append on that key
\* does not go on as if the key held no elements: it does not return Ok and
\* it writes nothing.
C12_DecodeErrorNotZero ==
    [][call'.op = "try_append" /\ MalformedAt(call'.key) =>
        /\ decode_len(call'.key).tag = "DecodeError"
        /\ call'.res # "Ok"
        /\ storage' = storage
    ]_vars

\* the byte length of the compact encoding of n, as the table gives it
compactSize(n) ==
    IF n < 2 ^ 6 THEN 1 ELSE IF n < 2 ^ 14 THEN 2 ELSE IF n < 2 ^ 30 THEN 4 ELSE 5

\* n * e, or the largest machine integer when the product is larger
satMul(n, e) == IF e > 0 /\ n > usize_MAX \div e THEN usize_MAX ELSE n * e
\* a + b, or the largest machine integer when the sum is larger
satAdd(a, b) == IF b > usize_MAX - a THEN usize_MAX ELSE a + b

\* C13: max_encoded_len for bound N and element worst-case size E equals
\* satAdd(compactSize(N), satMul(N, E)), compactSize being 1, 2, 4 or 5 by
\* the table, both operations saturating at the largest machine integer; for
\* N = 0 the result is 1.
C13_MaxEncodedLen ==
    size.asked =>
        /\ size.len = satAdd(compactSize(S), satMul(S, size.element))
        /\ size.len <= usize_MAX
        /\ S = 0 => size.len = 1

\* the product fits the machine integer but the sum with the five bytes of
\* the count does not
C13_Witness ==
    /\ size.asked
    /\ S = usize_MAX - 1 /\ size.element = 1
    /\ compactSize(S) = 5
    /\ size.len = usize_MAX

\* C14: max_encoded_len is an upper bound on the real serialized size: every
\* sequence of length k <= S of elements that encode to at most
\* T::max_encoded_len() bytes encodes to at most max_encoded_len bytes, and so
\* does every stored buffer reached through validated writes and try_append.
C14_UpperBoundOnSize ==
    /\ \A t \in Vecs(bound) :
            /\ Len(Encode(t)) = compactSize(Len(t)) + Len(EncodeItems(t))
            /\ Len(Encode(t)) <= max_encoded_len(T_max_encoded_len)
    /\ \A key \in FinalKeys : storage[key].some =>
            Len(storage[key].val) <= max_encoded_len(T_max_encoded_len)

\* a try_append filled a stored buffer up to max_encoded_len bytes exactly
C14_Witness ==
    /\ call.op = "try_append" /\ call.res = "Ok"
    /\ bound > 0
    /\ Len(storage[call.key].val) = max_encoded_len(T_max_encoded_len)

\* C15: force_from(t, scope) never fails: for every t, also one longer than
\* S, a BoundedVec with the contents t exists afterwards, and the warning is
\* logged exactly when t is longer than S.
C15_ForceFrom ==
    [][last'.op = "force_from" =>
        /\ vecs'[last'.slot] = Some(last'.t)
        /\ last'.res = (IF Len(last'.t) > bound THEN "Warn" ELSE "Unit")
      ]_vars

\* force_from built a value longer than the bound and warned
C15_Witness ==
    /\ last.op = "force_from" /\ last.res = "Warn"
    /\ vecs[last.slot].some
    /\ Len(vecs[last.slot].val) > bound
    /\ vecs[last.slot].val = last.t

\* C16: for a sequence of length n and index i < n, remove(i) gives the
\* sequence without element i, the others in their order; swap_remove(i) gives
\* the sequence with the former last element in slot i and the last slot
\* dropped, the other positions unchanged; both shrink the length by one, and
\* both panic when i >= n.
C16_RemoveAndSwapRemove ==
    [][last'.op \in {"remove", "swap_remove"} =>
        LET n == Len(Before)
            i == last'.index + 1
        IN  IF last'.index < n
              THEN /\ last'.res # "Panic"
                   /\ Len(After) = n - 1
                   /\ last'.op = "remove" =>
                        /\ \A j \in 1..(i - 1) : After[j] = Before[j]
                        /\ \A j \in i..(n - 1) : After[j] = Before[j + 1]
                   /\ last'.op = "swap_remove" =>
                        /\ \A j \in 1..(n - 1) : j # i => After[j] = Before[j]
                        /\ i <= n - 1 => After[i] = Before[n]
              ELSE last'.res = "Panic"
      ]_vars

\* swap_remove(0) took the first of three elements away and the two left are
\* not equal, so that their order shows
C16_Witness ==
    /\ last.op = "swap_remove" /\ last.res # "Panic"
    /\ last.index = 0
    /\ Len(vecs[last.slot].val) = 2
    /\ vecs[last.slot].val[1] # vecs[last.slot].val[2]

\* the mutators that check the bound or only take elements away
BoundChecked == {"try_push", "try_insert", "try_mutate", "remove", "swap_remove",
                 "retain"}

\* C19: once a value is longer than S (built by force_from), no bound-checked
\* operation makes it longer: try_push and try_insert (index <= length)
\* return Err and leave it unchanged, try_mutate returns None unless the
\* closure brings the length down to <= S, remove / swap_remove / retain only
\* shrink it; and a value of length <= S keeps a length <= S.
C19_NoGrowthOverBound ==
    [][last'.op \in BoundChecked =>
        /\ Len(Before) > bound =>
            /\ (\/ last'.op = "try_push"
                \/ last'.op = "try_insert" /\ last'.index <= Len(Before))
                  => last'.res = "Err" /\ vecs' = vecs
            /\ last'.op = "try_mutate" =>
                  (last'.res = "None" <=> Len(last'.t) > bound)
            /\ vecs'[last'.slot].some => Len(After) <= Len(Before)
        /\ (Len(Before) <= bound /\ vecs'[last'.slot].some) => Len(After) <= bound
      ]_vars

\* a try_push on a value longer than the bound was refused
C19_Witness ==
    /\ last.op = "try_push" /\ last.res = "Err"
    /\ vecs[last.slot].some
    /\ Len(vecs[last.slot].val) > bound

\* C17: after a validated BoundedVec of length k is written whole at a key
\* (of the value, the map or the double map), decode_len at that key returns
\* exactly k; decode_len at a key never written returns None; and try_append
\* takes a None for a count of zero: on such a key it succeeds exactly when
\* 0 < S and leaves one element stored.
C17_DecodeLenAfterWrite ==
    [][\A key \in FinalKeys :
        /\ (call'.op = "put" /\ call'.key = key) =>
              decode_len(key)' = [tag |-> "Some", val |-> Len(series'.start)]
        /\ ~storage'[key].some => decode_len(key)'.tag = "None"
        /\ (call'.op = "try_append" /\ call'.key = key /\ ~storage[key].some) =>
              /\ call'.res = (IF 0 < bound THEN "Ok" ELSE "Err")
              /\ call'.res = "Ok" => decode_len(key)' = [tag |-> "Some", val |-> 1]
              /\ call'.res = "Err" => storage' = storage
      ]_vars

\* a value of two elements was written at one key of a map or double map and
\* decode_len counts two there, while another key was never written
C17_Witness ==
    /\ call.op = "put"
    /\ Len(series.start) = 2
    /\ decode_len(call.key) = [tag |-> "Some", val |-> 2]
    /\ \E key \in facade.keys : ~storage[key].some /\ decode_len(key).tag = "None"

\* C18: try_append reads the stored count and appends in two separate store
\* steps with nothing held in between: a caller that read the count S - 1
\* appends and returns Ok whatever the other caller stored meanwhile, the
\* count going up by one from what is stored then; and when two callers on
\* one key both read S - 1 before either appends, both return Ok and the
\* stored count is S + 1, over the bound.
C18_InterleavedAppends ==
    [][\A caller \in Callers :
        (/\ pending[caller].pc = "read" /\ pending'[caller].pc = "done"
         /\ pending[caller].current = bound - 1) =>
            /\ pending'[caller].res = "Ok"
            /\ PrefixCount(storage', pending[caller].key) =
                    unwrap_or_default(decode_len(pending[caller].key)) + 1
            /\ (\E other \in Callers \ {caller} :
                    /\ pending[other].pc = "done" /\ pending[other].res = "Ok"
                    /\ pending[other].key = pending[caller].key
                    /\ pending[other].current = bound - 1)
                 => PrefixCount(storage', pending[caller].key) = bound + 1
      ]_vars

\* two callers appended to one key that held S - 1 elements, both with Ok,
\* and S + 1 elements are stored
C18_Witness ==
    /\ \A caller \in Callers :
            /\ pending[caller].pc = "done" /\ pending[caller].res = "Ok"
            /\ pending[caller].current = bound - 1
            /\ pending[caller].key = pending[1].key
    /\ PrefixCount(storage, pending[1].key) = bound + 1
    /\ Len(Read(pending[1].key)) = bound + 1

\* C20: the storage facade refines the in-memory type: from the same
\* contents s with length <= S, for every sequence of elements, try_append on
\* the key and try_push on the in-memory value give the same Ok / Err at
\* every step, and after every step the value read back from the key equals
\* the in-memory value.
C20_AppendRefinesPush ==
    call.op # "none" =>
        /\ storage_get(storage, call.key) = vecs["bounded"]
        /\ call.op = "try_append" =>
              /\ last.op = "try_push"
              /\ call.res = last.res
              /\ Read(call.key) = series.start \o series.appended

\* after elements were taken by both, one was refused by both at the bound
C20_Witness ==
    /\ call.op = "try_append" /\ call.res = "Err"
    /\ last.op = "try_push" /\ last.res = "Err"
    /\ series.appended # <<>>
    /\ Len(vecs["bounded"].val) = bound
    /\ storage_get(storage, call.key) = vecs["bounded"]
====
